---- MODULE Spec2Model ----
(***************************************************************************)
(* A model of the data loader and the session handling of Tipa.py          *)
(* (Sales Insights Pro): parse_excel_csv, parse_pdf, parse_html,           *)
(* load_data, load_sample_data and the sidebar part of main.               *)
(*                                                                         *)
(* pandas objects are modelled by value:                                   *)
(*   - a cell is a record [k, s, n]: k is "null" (NaN/None), "str" (text   *)
(*     s), "num" (number n) or "date" (timestamp, n-th period);            *)
(*   - a DataFrame is [columns, index, data]: the column labels (cells),   *)
(*     the row labels (0-based integers, as pandas keeps them) and the     *)
(*     rows, each a sequence of cells as long as columns;                  *)
(*   - Python's None / Optional is the empty sequence, a present value x   *)
(*     is <<x>>;                                                           *)
(*   - a file name is the sequence of its characters.                      *)
(***************************************************************************)
EXTENDS Integers, Sequences, FiniteSets, TLC

VARIABLES
    df,         \* st.session_state['df']: None or Some(DataFrame)
    file_name,  \* st.session_state['file_name']: None or Some(name)
    uploaded,   \* the file held by the st.file_uploader widget: None or Some(file)
    arg,        \* the argument of the function under test (pure-function specifications)
    ret,        \* its returned value: None (not called yet) or Some(result)
    last,       \* the last call: [op, name, parser, outcome, had]: the handler, the
                \* file name it was given, the parser load_data called, what
                \* load_data did, whether the session held a table before
    pivot_df,   \* st.session_state['pivot_df']: None (absent or None) or Some(pivot)
    session_kpi_cols,   \* st.session_state['kpi_cols']: a list of names (absent: empty)
    session_date_col    \* st.session_state['date_col']: None (absent or None) or Some(name)

vars == <<df, file_name, uploaded, arg, ret, last, pivot_df, session_kpi_cols,
          session_date_col>>

-----------------------------------------------------------------------------
(* Bounds of the checked instances *)

\* cells (rows x columns) of a raw grid given to the loader in SpecParse
MaxCells == 6
\* cells of a table inside a file loaded in SpecLoad and Spec
MaxFileCells == 2

\* rows of a table given to generate_pivot in SpecPivot
MaxPivotRows == 2
\* rows of the loaded table in SpecPivotTab
MaxTabRows == 1

\* rows of a table of consecutive days given to run_forecast in SpecForecast
MaxPoints == 6
\* rows of a table with repeated and missing dates and values in SpecForecast
MaxMixedRows == 3
\* forecast periods asked for in SpecForecast
MaxHorizon == 3

\* rows of a table given to the column configuration in SpecConfig
MaxConfigRows == 2

-----------------------------------------------------------------------------
(* Optional values *)

None == <<>>
Some(x) == <<x>>
IsNone(o) == Len(o) = 0
Val(o) == o[1]

-----------------------------------------------------------------------------
(* Cells *)

Null == [k |-> "null", s |-> "", n |-> 0]
Str(x) == [k |-> "str", s |-> x, n |-> 0]
Num(i) == [k |-> "num", s |-> "", n |-> i]
Date(i) == [k |-> "date", s |-> "", n |-> i]

notna(c) == c.k # "null"

\* str.strip() on the texts that occur in the checked grids
strip(s) ==
    CASE s = " " -> ""
      [] s = " A" -> "A"
      [] s = "A " -> "A"
      [] OTHER -> s

\* str.startswith("Unnamed") on the texts that occur in the checked grids
startswith_Unnamed(s) == s \in {"Unnamed", "Unnamed: 0", "Unnamed: 1"}

\* the decimal texts pandas.to_numeric parses, among the texts of the checked grids
NumericTexts == {"1", "2", "3", "100", "150"}

numval(s) ==
    CASE s = "1" -> 1
      [] s = "2" -> 2
      [] s = "3" -> 3
      [] s = "100" -> 100
      [] s = "150" -> 150

\* Series.astype(str) on one cell: NaN becomes the text "nan"
astype_str(c) ==
    CASE c.k = "null" -> "nan"
      [] c.k = "str" -> c.s
      [] c.k = "num" -> (CHOOSE t \in NumericTexts : numval(t) = c.n)
      [] OTHER -> "date"

-----------------------------------------------------------------------------
(* Sequence helpers *)

RECURSIVE SortedSeq(_)
SortedSeq(S) ==
    IF S = {} THEN <<>>
    ELSE LET m == CHOOSE x \in S : \A y \in S : x <= y
         IN <<m>> \o SortedSeq(S \ {m})

\* the elements of seq at the positions in S, in their order in seq
Pick(seq, S) ==
    LET o == SortedSeq(S) IN [i \in 1..Len(o) |-> seq[o[i]]]

Range(seq) == {seq[i] : i \in 1..Len(seq)}

\* RangeIndex(n): 0, 1, ..., n-1
RangeIndex(n) == [i \in 1..n |-> i - 1]

-----------------------------------------------------------------------------
(* DataFrame operations *)

\* pd.DataFrame / read_csv(header=None) of a rectangular grid: labels 0..n-1 on both axes
RawFrame(grid) ==
    [columns |-> [j \in 1..(IF Len(grid) = 0 THEN 0 ELSE Len(grid[1])) |-> Num(j - 1)],
     index |-> RangeIndex(Len(grid)),
     data |-> grid]

nrows(f) == Len(f.data)
ncols(f) == Len(f.columns)

\* DataFrame.empty
empty(f) == nrows(f) = 0 \/ ncols(f) = 0

\* DataFrame.dropna(how='all'): the row labels of the kept rows are kept
dropna_rows(f) ==
    LET keep == {i \in 1..nrows(f) : \E j \in 1..ncols(f) : notna(f.data[i][j])}
    IN [f EXCEPT !.index = Pick(f.index, keep), !.data = Pick(f.data, keep)]

\* DataFrame.dropna(axis=1, how='all')
dropna_cols(f) ==
    LET keep == {j \in 1..ncols(f) : \E i \in 1..nrows(f) : notna(f.data[i][j])}
    IN [f EXCEPT !.columns = Pick(f.columns, keep),
                 !.data = [i \in 1..nrows(f) |-> Pick(f.data[i], keep)]]

\* DataFrame.reset_index(drop=True)
reset_index(f) == [f EXCEPT !.index = RangeIndex(nrows(f))]

\* df.notna().sum(axis=1) at position i
notna_count(f, i) == Cardinality({j \in 1..ncols(f) : notna(f.data[i][j])})

\* Series.idxmax(): the LABEL of the first row holding the maximum
idxmax(f) ==
    LET p == CHOOSE i \in 1..nrows(f) :
                 /\ \A q \in 1..nrows(f) : notna_count(f, q) <= notna_count(f, i)
                 /\ \A q \in 1..(i - 1) : notna_count(f, q) < notna_count(f, i)
    IN f.index[p]

\* Index.duplicated(): position j repeats a label seen at a lower position
duplicated(cols, j) == \E i \in 1..(j - 1) : cols[i] = cols[j]

has_duplicates(cols) == \E j \in 1..Len(cols) : duplicated(cols, j)

\* a faulty to_numeric: each cell coerced on its own
to_numeric_per_cell(col) ==
    [i \in 1..Len(col) |->
        IF col[i].k = "str" /\ col[i].s \in NumericTexts
        THEN Num(numval(col[i].s)) ELSE col[i]]

\* pd.to_numeric(series, errors='ignore') on the cells of one column:
\* all cells converted when every non-null cell parses, else the column as it was
to_numeric(col) ==
    IF \A i \in 1..Len(col) :
           \/ col[i].k \in {"null", "num"}
           \/ col[i].k = "str" /\ col[i].s \in NumericTexts
    THEN [i \in 1..Len(col) |->
              IF col[i].k = "str" THEN Num(numval(col[i].s)) ELSE col[i]]
    ELSE col

column(f, j) == [i \in 1..nrows(f) |-> f.data[i][j]]

\* for c in df.columns: df[c] = pd.to_numeric(df[c], errors='ignore')
\* With a repeated label df[c] is a DataFrame and to_numeric raises TypeError.
numeric_loop_raises(f) == has_duplicates(f.columns)

numeric_loop(f) ==
    [f EXCEPT !.data = [i \in 1..nrows(f) |->
                           [j \in 1..ncols(f) |-> to_numeric(column(f, j))[i]]]]

-----------------------------------------------------------------------------
(* File names: str.lower() and str.endswith() *)

UpperChars == <<"A","B","C","D","E","F","G","H","I","J","K","L","M",
                "N","O","P","Q","R","S","T","U","V","W","X","Y","Z">>
LowerChars == <<"a","b","c","d","e","f","g","h","i","j","k","l","m",
                "n","o","p","q","r","s","t","u","v","w","x","y","z">>

lower_char(c) ==
    IF \E i \in 1..26 : UpperChars[i] = c
    THEN LowerChars[CHOOSE i \in 1..26 : UpperChars[i] = c]
    ELSE c

lower(name) == [i \in 1..Len(name) |-> lower_char(name[i])]

endswith(name, suffix) ==
    /\ Len(suffix) <= Len(name)
    /\ SubSeq(name, Len(name) - Len(suffix) + 1, Len(name)) = suffix

ext_csv == <<".", "c", "s", "v">>
ext_xls == <<".", "x", "l", "s">>
ext_xlsx == <<".", "x", "l", "s", "x">>
ext_pdf == <<".", "p", "d", "f">>
ext_html == <<".", "h", "t", "m", "l">>
ext_htm == <<".", "h", "t", "m">>

-----------------------------------------------------------------------------
(* Results of the parsers: a frame, None, or an exception that propagates *)

NoFrame == [columns |-> <<>>, index |-> <<>>, data |-> <<>>]
Frame(f) == [tag |-> "frame", frame |-> f]
ReturnNone == [tag |-> "none", frame |-> NoFrame]
Raise == [tag |-> "raise", frame |-> NoFrame]

\* "Column_<i>"
ColumnTexts ==
    <<"Column_0", "Column_1", "Column_2", "Column_3", "Column_4", "Column_5",
      "Column_6", "Column_7">>
Column_(i) == Str(ColumnTexts[i + 1])

\* line 318: df.dropna(how='all').dropna(axis=1, how='all')
drop_empty(f) == dropna_cols(dropna_rows(f))

\* line 323: header_row = df.notna().sum(axis=1).idxmax()  (a row LABEL)
header_row(f) == idxmax(f)

\* line 324: df.iloc[header_row] reads the row at POSITION header_row
\* (0-based); it raises IndexError when there is no such position
iloc_raises(f, h) == h >= nrows(f)
iloc(f, h) == f.data[h + 1]

\* line 324: df.iloc[header_row].astype(str).str.strip()
header_names(f, h) ==
    [j \in 1..ncols(f) |-> Str(strip(astype_str(iloc(f, h)[j])))]

\* line 325: df.iloc[header_row + 1:].reset_index(drop=True)
body_below(f, h) ==
    reset_index([f EXCEPT !.index = Pick(f.index, (h + 2)..nrows(f)),
                          !.data = Pick(f.data, (h + 2)..nrows(f))])

\* lines 328-332: replace blank and "Unnamed..." names by Column_<i>, i from enumerate
keeps_name(col) ==
    col.k = "str" /\ strip(col.s) # "" /\ ~startswith_Unnamed(strip(col.s))

\* a faulty clean_names: the index counted from 1
clean_names_from_one(cols) ==
    [j \in 1..Len(cols) |-> IF keeps_name(cols[j]) THEN cols[j] ELSE Column_(j)]

clean_names(cols) ==
    [j \in 1..Len(cols) |-> IF keeps_name(cols[j]) THEN cols[j] ELSE Column_(j - 1)]

\* line 341: df.loc[:, ~df.columns.duplicated()]
drop_duplicated(f) ==
    LET keep == {j \in 1..ncols(f) : ~duplicated(f.columns, j)}
    IN [f EXCEPT !.columns = Pick(f.columns, keep),
                 !.data = [i \in 1..nrows(f) |-> Pick(f.data[i], keep)]]

\* lines 324-334: the body under its cleaned names, empty rows dropped again
named_body(c, h) ==
    reset_index(dropna_rows(
        [body_below(c, h) EXCEPT !.columns = clean_names(header_names(c, h))]))

\* lines 322-342, from the cleaned non-empty frame on
parse_from_cleaned(c) ==
    LET h == header_row(c) IN
    IF iloc_raises(c, h) THEN Raise
    ELSE LET body == named_body(c, h)
         IN IF numeric_loop_raises(body) THEN Raise
            ELSE Frame(drop_duplicated(numeric_loop(body)))

\* A file's content: readable is FALSE when the reader library raises on it;
\* grids are the tables the reader finds (one sheet for CSV/Excel)
parse_excel_csv(content) ==
    IF ~content.readable THEN ReturnNone
    ELSE LET c == drop_empty(RawFrame(content.grids[1]))
         IN IF empty(c) THEN ReturnNone ELSE parse_from_cleaned(c)

\* pd.DataFrame(table[1:], columns=table[0])
table_frame(table) ==
    [columns |-> table[1],
     index |-> RangeIndex(Len(table) - 1),
     data |-> SubSeq(table, 2, Len(table))]

RECURSIVE concat_rows(_)
concat_rows(frames) ==
    IF Len(frames) = 0 THEN <<>> ELSE frames[1].data \o concat_rows(Tail(frames))

\* pd.concat(frames, ignore_index=True) of frames that carry the same columns
concat(frames) ==
    LET rows == concat_rows(frames)
    IN [columns |-> frames[1].columns, index |-> RangeIndex(Len(rows)), data |-> rows]

\* lines 263-284: every non-empty extracted table becomes a frame whose
\* columns are the table's first row
parse_pdf(content) ==
    IF ~content.readable THEN ReturnNone
    ELSE LET tables == SelectSeq(content.grids, LAMBDA t : Len(t) > 0)
         IN IF Len(tables) = 0 THEN ReturnNone
            ELSE Frame(concat([i \in 1..Len(tables) |-> table_frame(tables[i])]))

\* lines 286-299: pd.read_html yields one frame per table, its columns
\* taken from the table's header row; it raises when it finds none
parse_html(content) ==
    IF ~content.readable \/ Len(content.grids) = 0 THEN ReturnNone
    ELSE Frame(concat([i \in 1..Len(content.grids) |-> table_frame(content.grids[i])]))

\* a faulty parser_of: the name is not lower-cased
parser_of_case_sensitive(name) ==
    IF endswith(name, ext_pdf) THEN "pdf"
    ELSE IF endswith(name, ext_html) \/ endswith(name, ext_htm) THEN "html"
    ELSE IF endswith(name, ext_csv) \/ endswith(name, ext_xls) \/ endswith(name, ext_xlsx)
         THEN "excel_csv"
    ELSE "none"

\* lines 358-366: the parser load_data dispatches to
parser_of(name) ==
    LET l == lower(name) IN
    IF endswith(l, ext_pdf) THEN "pdf"
    ELSE IF endswith(l, ext_html) \/ endswith(l, ext_htm) THEN "html"
    ELSE IF endswith(l, ext_csv) \/ endswith(l, ext_xls) \/ endswith(l, ext_xlsx)
         THEN "excel_csv"
    ELSE "none"

parse(file) ==
    CASE parser_of(file.name) = "pdf" -> parse_pdf(file.content)
      [] parser_of(file.name) = "html" -> parse_html(file.content)
      [] parser_of(file.name) = "excel_csv" -> parse_excel_csv(file.content)

\* line 370: dropna rows, dropna columns, reset_index
post_drop(f) == reset_index(dropna_cols(dropna_rows(f)))

\* lines 353-389: what load_data does with the file: "unsupported" (return,
\* nothing touched), "stored" (frame into the session) or "cleared" (session
\* set to None, None)
after_parse(r) ==
    IF r.tag = "frame" /\ ~empty(r.frame)
    THEN LET d == post_drop(r.frame) IN
         IF numeric_loop_raises(d)
         THEN [outcome |-> "cleared", frame |-> NoFrame]
         ELSE [outcome |-> "stored", frame |-> numeric_loop(d)]
    ELSE [outcome |-> "cleared", frame |-> NoFrame]

load_outcome(file) ==
    IF parser_of(file.name) = "none"
    THEN [outcome |-> "unsupported", frame |-> NoFrame]
    ELSE after_parse(parse(file))

-----------------------------------------------------------------------------
(* Inputs *)

\* all rectangular grids over cells with at most n cells and at least one
Shapes(n) == {sh \in (1..n) \X (1..n) : sh[1] * sh[2] <= n}
GridsOver(cells, n) ==
    UNION {[1..sh[1] -> [1..sh[2] -> cells]] : sh \in Shapes(n)}

\* the cell texts of the grids of SpecParse: a plain name, a blank, a
\* placeholder name and a number
ParseCells == {Null, Str("A"), Str(" "), Str("Unnamed: 0"), Str("1")}

FileCells == {Null, Str("A"), Str("1")}
Readable(grids) == [readable |-> TRUE, grids |-> grids]
Unreadable == [readable |-> FALSE, grids |-> <<>>]
\* a table whose header cell is blank text
BlankHeaderGrid == <<<<Str(" ")>>, <<Str("A")>>>>
\* a document holds one table, or none, or cannot be read
Contents ==
    {Readable(<<g>>) : g \in GridsOver(FileCells, MaxFileCells)}
        \cup {Readable(<<BlankHeaderGrid>>), Readable(<<>>), Unreadable}

name_a_csv == <<"a", ".", "c", "s", "v">>
name_A_CSV == <<"A", ".", "C", "S", "V">>
name_b_xlsx == <<"b", ".", "x", "l", "s", "x">>
name_b_Xls == <<"b", ".", "X", "l", "s">>
name_r_pdf == <<"r", ".", "p", "d", "f">>
name_r_PDF == <<"r", ".", "P", "D", "F">>
name_p_html == <<"p", ".", "h", "t", "m", "l">>
name_p_htm == <<"p", ".", "h", "t", "m">>
name_n_txt == <<"n", ".", "t", "x", "t">>
name_csv == <<"c", "s", "v">>
name_a_csv_bak == <<"a", ".", "c", "s", "v", ".", "b", "a", "k">>
name_a_pdfx == <<"a", ".", "p", "d", "f", "x">>
\* 'Sample_Data.csv' (line 408)
name_Sample_Data_csv ==
    <<"S", "a", "m", "p", "l", "e", "_", "D", "a", "t", "a", ".", "c", "s", "v">>

SupportedNames ==
    {name_a_csv, name_A_CSV, name_b_xlsx, name_b_Xls, name_r_pdf, name_r_PDF,
     name_p_html, name_p_htm, name_Sample_Data_csv}
UnsupportedNames == {name_n_txt, name_csv, name_a_csv_bak, name_a_pdfx}

File(name, content) == [name |-> name, content |-> content]

\* pandas' text parser (read_csv, read_excel, read_html) skips the blank lines
\* of a one-column table: such a grid reaches the code without null cells.
\* pdfplumber's tables reach it as they are.
ReaderGrid(g) ==
    Len(g[1]) = 1 => \A i \in 1..Len(g) : notna(g[i][1])

\* pd.read_html names the columns itself: the header cells of its frames are
\* texts, none blank, no two the same
ReaderHeader(g) ==
    /\ \A j \in 1..Len(g[1]) : g[1][j].k = "str" /\ strip(g[1][j].s) # ""
    /\ ~has_duplicates(g[1])

\* a CSV/Excel file holds exactly one sheet
WellFormed(f) ==
    /\ (parser_of(f.name) = "excel_csv" /\ f.content.readable) =>
           Len(f.content.grids) = 1
    /\ parser_of(f.name) \in {"excel_csv", "html"} =>
           \A t \in 1..Len(f.content.grids) : ReaderGrid(f.content.grids[t])
    /\ parser_of(f.name) = "html" =>
           \A t \in 1..Len(f.content.grids) : ReaderHeader(f.content.grids[t])
LoadFiles ==
    {f \in {File(nm, c) : nm \in SupportedNames \cup UnsupportedNames, c \in Contents} :
        WellFormed(f)}
\* the uploader accepts only type=['csv','xls','xlsx','pdf','html','htm'] (line 862)
UploadNames == {name_a_csv, name_r_pdf, name_p_htm, name_Sample_Data_csv}
UploadFiles == {f \in LoadFiles : f.name \in UploadNames}

-----------------------------------------------------------------------------
(* The sample data (lines 391-409) *)

\* periods=24 (line 395)
SamplePeriods == 24

\* get_sample_data is cached: the random columns are drawn once; one draw is
\* modelled (Sales 100 + i, Quantity 1 + i, Profit i - 50)
get_sample_data ==
    [columns |-> <<Str("Date"), Str("Category"), Str("Branch"),
                   Str("Sales"), Str("Quantity"), Str("Profit")>>,
     index |-> RangeIndex(SamplePeriods),
     data |-> [i \in 1..SamplePeriods |->
                 <<Date(i),
                   Str(<<"A", "B", "C">>[((i - 1) % 3) + 1]),
                   Str(<<"North", "South">>[((i - 1) % 2) + 1]),
                   Num(100 + i), Num(1 + i), Num(i - 50)>>]]

-----------------------------------------------------------------------------
(* Handlers *)

Idle == [op |-> "init", name |-> None, parser |-> "none", outcome |-> "none", had |-> FALSE]

\* the parsers are @st.cache_data functions of the file: their results per file
cached_outcome == [f \in LoadFiles |-> load_outcome(f)]

\* the session entries the loader writes
Session(d, n) == [df |-> d, file_name |-> n]

\* a faulty load_data: a failed load leaves the session as it was
load_data_keeps_session(sess, file) ==
    LET o == cached_outcome[file] IN
    IF o.outcome = "stored" THEN Session(Some(o.frame), Some(file.name)) ELSE sess

\* load_data(uploaded_file), lines 344-389: the session it leaves
load_data(sess, file) ==
    LET o == cached_outcome[file] IN
    CASE o.outcome = "stored" -> Session(Some(o.frame), Some(file.name))
      [] o.outcome = "cleared" -> Session(None, None)
      [] OTHER -> sess

\* a faulty load_sample_data: the file name is not set
load_sample_data_without_name == Session(Some(get_sample_data), None)

\* load_sample_data(), lines 404-409
load_sample_data == Session(Some(get_sample_data), Some(name_Sample_Data_csv))

\* main, lines 860-872: the uploader's file is loaded when its name differs
\* from the session's file name, then the sample button is served
calls_load_data(sess, up) == ~IsNone(up) /\ Some(Val(up).name) # sess.file_name

main_sidebar(sess, up, button) ==
    LET s1 == IF calls_load_data(sess, up) THEN load_data(sess, Val(up)) ELSE sess
    IN IF button THEN load_sample_data ELSE s1

-----------------------------------------------------------------------------
(* Aggregation functions of pandas on the cells of one group *)

\* the numbers among cells, in their order (the nulls are skipped)
nums(cells) ==
    LET present == SelectSeq(cells, notna)
    IN [i \in 1..Len(present) |-> present[i].n]

RECURSIVE SeqSum(_)
SeqSum(ns) == IF Len(ns) = 0 THEN 0 ELSE Head(ns) + SeqSum(Tail(ns))

\* the i-th smallest of ns (i from 1), repeated numbers counted
kth(ns, i) ==
    CHOOSE x \in Range(ns) :
        /\ Cardinality({p \in 1..Len(ns) : ns[p] < x}) < i
        /\ Cardinality({p \in 1..Len(ns) : ns[p] <= x}) >= i

\* the number sqrt(v): an integer when v is a square, else kept as the root of v
Sqrt(v) ==
    IF \E r \in 0..v : r * r = v
    THEN Num(CHOOSE r \in 0..v : r * r = v)
    ELSE [k |-> "num", s |-> "sqrt", n |-> v]

\* Series.sum/mean/median/count/min/max/std (skipna, std with ddof=1) of the
\* cells of one group. The numbers of the checked tables are multiples of 12,
\* which makes every division below exact for groups of up to 4 rows.
aggregate(func, cells) ==
    LET ns == nums(cells)
        n == Len(ns)
        sq == [i \in 1..n |-> ns[i] * ns[i]]
    IN IF func = "count" THEN Num(n)
       ELSE IF func = "sum" THEN Num(SeqSum(ns))
       ELSE IF n = 0 THEN Null
       ELSE CASE func = "mean" -> Num(SeqSum(ns) \div n)
              [] func = "median" ->
                     IF n % 2 = 1 THEN Num(kth(ns, (n + 1) \div 2))
                     ELSE Num((kth(ns, n \div 2) + kth(ns, n \div 2 + 1)) \div 2)
              [] func = "min" -> Num(kth(ns, 1))
              [] func = "max" -> Num(kth(ns, n))
              [] func = "std" ->
                     IF n < 2 THEN Null
                     ELSE Sqrt((n * SeqSum(sq) - SeqSum(ns) * SeqSum(ns))
                                   \div (n * (n - 1)))

-----------------------------------------------------------------------------
(* generate_pivot (lines 432-453): pd.pivot_table(df, index, columns, values,
   aggfunc, margins=True, fill_value=0) *)

\* the keys of agg_map (lines 436-439)
agg_map == {"sum", "mean", "median", "count", "min", "max", "std"}

\* line 440: agg_map.get(aggfunc, np.sum)
agg_map_get(aggfunc) == IF aggfunc \in agg_map THEN aggfunc ELSE "sum"

\* the order of labels: pandas sorts the group keys and the result's columns
TextOrder ==
    <<"", "A", "All", "B", "Branch", "C", "Category", "Date", "North", "Profit",
      "Quantity", "Sales", "South">>
cell_rank(c) ==
    IF c.k = "str" THEN CHOOSE p \in 1..Len(TextOrder) : TextOrder[p] = c.s ELSE c.n

\* a < b for two labels (sequences of cells) of the same length
key_less(a, b) ==
    \E p \in 1..Len(a) :
        /\ \A q \in 1..(p - 1) : a[q] = b[q]
        /\ cell_rank(a[p]) < cell_rank(b[p])

RECURSIVE SortKeys(_)
SortKeys(S) ==
    IF S = {} THEN <<>>
    ELSE LET m == CHOOSE x \in S : \A y \in S \ {x} : key_less(x, y)
         IN <<m>> \o SortKeys(S \ {m})

\* the position of the column named c
col_pos(f, c) == CHOOSE j \in 1..ncols(f) : f.columns[j] = c

\* the cells of row i under the columns named in fields
key_of(f, fields, i) == [q \in 1..Len(fields) |-> f.data[i][col_pos(f, fields[q])]]

\* rows without a null under the columns named in fields
complete(f, fields) ==
    {i \in 1..nrows(f) : \A q \in 1..Len(fields) : notna(key_of(f, fields, i)[q])}

\* data.groupby(fields, dropna=True) over the rows S: the group keys
groups(f, fields, S) == {key_of(f, fields, i) : i \in S \cap complete(f, fields)}

\* grouped.agg(func): the aggregate of column v over the rows of S in group g
agg_group(f, fields, S, g, v, func) ==
    aggregate(func, Pick(column(f, col_pos(f, v)), {i \in S : key_of(f, fields, i) = g}))

\* values as passed, or every column that is not a key
value_columns(f, keys, values) ==
    IF IsNone(values) THEN SelectSeq(f.columns, LAMBDA c : c \notin Range(keys))
    ELSE Val(values)

\* agged.dropna(how='all'): the groups with a non-null aggregate
agged_groups(f, keys, vals, func) ==
    {g \in groups(f, keys, 1..nrows(f)) :
        \E q \in 1..Len(vals) :
            notna(agg_group(f, keys, 1..nrows(f), g, vals[q], func))}

\* the label of the margins: ("All", "", ...)
margins_name == Str("All")
all_key(n) == [q \in 1..n |-> IF q = 1 THEN margins_name ELSE Str("")]

RECURSIVE Flatten(_)
Flatten(seqs) == IF Len(seqs) = 0 THEN <<>> ELSE Head(seqs) \o Flatten(Tail(seqs))

fillna(c, fill_value) == IF notna(c) THEN c ELSE fill_value

\* fill_value=0 (line 449)
fill_value == Num(0)

PivotResult(p) == [tag |-> "pivot", pivot |-> p]
NoPivot == [index |-> <<>>, columns |-> <<>>, data |-> <<>>]
PivotRaise == [tag |-> "raise", pivot |-> NoPivot]

\* pd.pivot_table for at least one index field. The result's row labels are
\* the sorted row groups and the margin "All"; its column labels are, per value
\* column, the sorted column groups and (with column fields) the margin "All".
\*   - body: the aggregate of the group, fill_value where the combination is
\*     missing or its aggregate is null;
\*   - margins: computed after the fill, over the rows of data[keys + values]
\*     that have no null at all (data[data.notna().all(axis=1)]); the column
\*     margin of a row group is aligned on the row groups of those rows and is
\*     not filled; the row margin is reindexed with fill_value;
\*   - at the end the columns that are null throughout are dropped.
pivot_table(f, index, columns, values, func) ==
    LET keys == index \o columns
        vals == value_columns(f, keys, values)
        every == 1..nrows(f)
        kept == agged_groups(f, keys, vals, func)
        RK == SortKeys({SubSeq(g, 1, Len(index)) : g \in kept})
        CK == SortKeys({SubSeq(g, Len(index) + 1, Len(keys)) : g \in kept})
        M == complete(f, keys \o vals)
        svals == SortKeys({<<vals[q]>> : q \in 1..Len(vals)})
        labels ==
            Flatten([q \in 1..Len(svals) |->
                IF Len(columns) = 0 THEN <<svals[q]>>
                ELSE [p \in 1..Len(CK) |-> svals[q] \o CK[p]]
                         \o <<svals[q] \o all_key(Len(columns))>>])
        rows == RK \o <<all_key(Len(index))>>
        cell(rl, cl) ==
            LET v == cl[1]
                ck == Tail(cl)
                margin_row == rl = all_key(Len(index))
                margin_col == Len(columns) > 0 /\ ck = all_key(Len(columns))
            IN IF margin_row /\ (margin_col \/ Len(columns) = 0)
               THEN aggregate(func, Pick(column(f, col_pos(f, v)), M))
               ELSE IF margin_row
               THEN IF ck \in groups(f, columns, M)
                    THEN fillna(agg_group(f, columns, M, ck, v, func), fill_value)
                    ELSE fill_value
               ELSE IF margin_col
               THEN IF rl \in groups(f, index, M)
                    THEN agg_group(f, index, M, rl, v, func)
                    ELSE Null
               ELSE IF rl \o ck \in kept
                    THEN fillna(agg_group(f, keys, every, rl \o ck, v, func), fill_value)
                    ELSE fill_value
        data == [i \in 1..Len(rows) |-> [j \in 1..Len(labels) |-> cell(rows[i], labels[j])]]
        keep == {j \in 1..Len(labels) : \E i \in 1..Len(rows) : notna(data[i][j])}
    IN IF Len(keys) = 0 THEN PivotRaise
       ELSE PivotResult([index |-> rows,
                         columns |-> Pick(labels, keep),
                         data |-> [i \in 1..Len(rows) |-> Pick(data[i], keep)]])

\* generate_pivot(df, rows, cols, values, aggfunc): Some(pivot), or None when
\* pd.pivot_table raised (lines 451-453)
generate_pivot(f, rows, cols, values, aggfunc) ==
    LET func == agg_map_get(aggfunc)
        pivot_values == IF IsNone(values) \/ Val(values) = <<>> THEN None ELSE values
        r == pivot_table(f, rows, cols, pivot_values, func)
    IN IF r.tag = "raise" THEN None ELSE Some(r.pivot)

\* a faulty validation: every request without value columns is rejected
rejects_without_values(value_cols, agg_type) == value_cols = <<>>

\* line 1073: not value_cols and agg_type != 'count'
rejects(value_cols, agg_type) == value_cols = <<>> /\ agg_type # "count"

\* line 892: list(df.select_dtypes(include=[np.number]).columns)
numeric_cols(f) ==
    Pick(f.columns,
         {j \in 1..ncols(f) : \A i \in 1..nrows(f) : f.data[i][j].k \in {"num", "null"}})

\* the result of the button: the new session pivot_df and whether
\* generate_pivot was called
Clicked(pvt, called) == [pivot_df |-> pvt, called |-> called]

\* a faulty click handler: a request that yields no pivot leaves pivot_df as it was
pivot_button_keeps(pvt, f, req) ==
    IF rejects(req.value_cols, req.agg_type) THEN Clicked(pvt, FALSE)
    ELSE LET r == generate_pivot(f, req.row_fields, req.col_fields,
                                 IF req.value_cols = <<>> THEN None ELSE Some(req.value_cols),
                                 req.agg_type)
         IN Clicked(IF IsNone(r) THEN pvt ELSE r, TRUE)

\* lines 1071-1080: the Generate Pivot button
pivot_button(pvt, f, req) ==
    IF rejects(req.value_cols, req.agg_type) THEN Clicked(None, FALSE)
    ELSE Clicked(generate_pivot(f, req.row_fields, req.col_fields,
                                IF req.value_cols = <<>> THEN None ELSE Some(req.value_cols),
                                req.agg_type),
                 TRUE)

-----------------------------------------------------------------------------
(* Calendar: a timestamp is a day counted from Monday 2024-01-01 (day 0) *)

leap(y) == (y % 4 = 0 /\ y % 100 # 0) \/ y % 400 = 0

\* 1 January of year y (2024 <= y < 2100)
year_start(y) == 365 * (y - 2024) + (y - 2021) \div 4

\* days before the 1st of each month in a common year
CumDays == <<0, 31, 59, 90, 120, 151, 181, 212, 243, 273, 304, 334>>

\* the 1st of month m, the months counted from January 2024 (m = 0)
month_start(m) ==
    LET y == 2024 + m \div 12
        k == m % 12
    IN year_start(y) + CumDays[k + 1] + (IF leap(y) /\ k >= 2 THEN 1 ELSE 0)

\* the month day d falls in
month_of(d) ==
    CHOOSE m \in (d \div 31)..(d \div 28 + 1) :
        month_start(m) <= d /\ d < month_start(m + 1)

\* the frequencies of the forecast tab (lines 1124-1130)
freq_options_map == {"D", "W-MON", "MS", "QS", "YS"}

\* months per period of the month-based frequencies
months_per(freq) ==
    CASE freq = "MS" -> 1
      [] freq = "QS" -> 3
      [] freq = "YS" -> 12

\* Series.resample(freq): the label of the bucket of day d. 'D', 'MS', 'QS'
\* and 'YS' buckets are labelled by their first day; a 'W-MON' bucket is the
\* week that ends on a Monday and is labelled by that Monday.
bucket(freq, d) ==
    CASE freq = "D" -> d
      [] freq = "W-MON" -> IF d % 7 = 0 THEN d ELSE d + (7 - (d % 7))
      [] OTHER -> month_start(months_per(freq) * (month_of(d) \div months_per(freq)))

\* the first day on the frequency at or after day d
rollforward(freq, d) ==
    CASE freq = "D" -> d
      [] freq = "W-MON" -> IF d % 7 = 0 THEN d ELSE d + (7 - (d % 7))
      [] OTHER ->
            IF bucket(freq, d) = d THEN d
            ELSE month_start(months_per(freq) * (month_of(d) \div months_per(freq) + 1))

\* day d, on the frequency, moved k periods on
shift(freq, d, k) ==
    CASE freq = "D" -> d + k
      [] freq = "W-MON" -> d + 7 * k
      [] OTHER -> month_start(month_of(d) + months_per(freq) * k)

\* pd.date_range(start=start, periods=periods, freq=freq)
date_range(start, periods, freq) ==
    [i \in 1..periods |-> shift(freq, rollforward(freq, start), i - 1)]

-----------------------------------------------------------------------------
(* Rational numbers: [num, den] in lowest terms, den > 0 *)

Abs(i) == IF i < 0 THEN -i ELSE i

RECURSIVE GCD(_, _)
GCD(a, b) == IF b = 0 THEN a ELSE GCD(b, a % b)

LCM(a, b) == (a \div GCD(a, b)) * b

Rat(n, d) ==
    LET g == GCD(Abs(n), Abs(d))
        sgn == IF d < 0 THEN -1 ELSE 1
    IN [num |-> sgn * (n \div g), den |-> sgn * (d \div g)]

RECURSIVE SeqLCM(_)
SeqLCM(ds) == IF Len(ds) = 0 THEN 1 ELSE LCM(Head(ds), SeqLCM(Tail(ds)))

-----------------------------------------------------------------------------
(* run_forecast (lines 455-577) *)

\* pd.to_datetime(errors='coerce') on one cell: a timestamp is kept, a text
\* that is a date is parsed, anything else becomes NaT
\* pd.to_datetime(..., errors='coerce') of a cell of a column of dates or of
\* texts: a text that is no date becomes NaT
to_datetime(c) ==
    CASE c.k = "date" -> c
      [] c.k = "str" /\ c.s = "2024-01-01" -> Date(0)
      [] c.k = "str" /\ c.s = "2024-02-01" -> Date(31)
      [] OTHER -> Null

has_column(f, c) == \E j \in 1..ncols(f) : f.columns[j] = c

\* a column of numbers and nulls (dtype float64 or int64)
is_numeric(col) == \A i \in 1..Len(col) : col[i].k \in {"num", "null"}

\* a faulty threshold: two points are not enough
insufficient_below_three(n) == n < 3

\* lines 479 and 535: shape[0] < 2
insufficient(n) == n < 2

\* a faulty degree: the curve from five points on
degree_two_from_five(n) == IF n >= 5 THEN 2 ELSE 1

\* lines 483-486 and 539-542
degree(n) == IF n >= 6 THEN 2 ELSE 1

RECURSIVE Pow(_, _)
Pow(b, k) == IF k = 0 THEN 1 ELSE b * Pow(b, k - 1)

\* sum of x^k * w[x + 1] over x = 0..n-1
RECURSIVE PowSum(_, _, _)
PowSum(n, k, w) ==
    IF n = 0 THEN 0
    ELSE PowSum(n - 1, k, w) + Pow(n - 1, k) * w[n]

Det3(m) ==
    m[1][1] * (m[2][2] * m[3][3] - m[2][3] * m[3][2])
    - m[1][2] * (m[2][1] * m[3][3] - m[2][3] * m[3][1])
    + m[1][3] * (m[2][1] * m[3][2] - m[2][2] * m[3][1])

\* np.polyfit(np.arange(n), ys, deg): the least-squares polynomial, as the
\* integers c[1] + c[2] x + c[3] x^2 over the common denominator den (the
\* normal equations solved by Cramer's rule, exactly); ys are rationals
polyfit(ys, deg) ==
    LET n == Len(ys)
        D == SeqLCM([i \in 1..n |-> ys[i].den])
        Y == [i \in 1..n |-> ys[i].num * (D \div ys[i].den)]
        one == [i \in 1..n |-> 1]
        S(k) == PowSum(n, k, one)
        T(k) == PowSum(n, k, Y)
    IN IF deg = 1
       THEN [c |-> <<S(2) * T(0) - S(1) * T(1), S(0) * T(1) - S(1) * T(0), 0>>,
             den |-> (S(0) * S(2) - S(1) * S(1)) * D]
       ELSE [c |-> <<Det3(<<<<T(0), S(1), S(2)>>, <<T(1), S(2), S(3)>>, <<T(2), S(3), S(4)>>>>),
                     Det3(<<<<S(0), T(0), S(2)>>, <<S(1), T(1), S(3)>>, <<S(2), T(2), S(4)>>>>),
                     Det3(<<<<S(0), S(1), T(0)>>, <<S(1), S(2), T(1)>>, <<S(2), S(3), T(2)>>>>)>>,
             den |-> Det3(<<<<S(0), S(1), S(2)>>, <<S(1), S(2), S(3)>>, <<S(2), S(3), S(4)>>>>) * D]

\* a faulty model: evaluated one position late
model_one_late(coeffs, x) ==
    Rat(coeffs.c[1] + coeffs.c[2] * (x + 1) + coeffs.c[3] * (x + 1) * (x + 1), coeffs.den)

\* np.poly1d(coeffs)(x)
model(coeffs, x) ==
    Rat(coeffs.c[1] + coeffs.c[2] * x + coeffs.c[3] * x * x, coeffs.den)

\* np.arange(a, b)
arange(a, b) == [i \in 1..(b - a) |-> a + i - 1]

\* a value p + sign * ci, where ci = 1.96 * np.nanstd(resid) is kept as the
\* residuals it is computed from; ci is 0 exactly when every residual is 0
Band(p, sign, resid) ==
    IF \A i \in 1..Len(resid) : resid[i].num = 0
    THEN [point |-> p, sign |-> 0, resid |-> <<>>]
    ELSE [point |-> p, sign |-> sign, resid |-> resid]
Exactly(p) == Band(p, 0, <<>>)

\* lines 483-511 and 539-561: fit and project the series (keys and rational
\* values) with the keys of the future entries
fit_and_project(series, future_keys, fc_periods) ==
    LET n == Len(series)
        ys == [i \in 1..n |-> series[i].value]
        deg == degree(n)
        x == arange(0, n)
        coeffs == polyfit(ys, deg)
        fitted == [i \in 1..n |-> model(coeffs, x[i])]
        resid == [i \in 1..n |->
                     Rat(ys[i].num * fitted[i].den - fitted[i].num * ys[i].den,
                         ys[i].den * fitted[i].den)]
        future_x == arange(n, n + fc_periods)
        preds == [i \in 1..Len(future_x) |-> model(coeffs, future_x[i])]
    IN [series |-> series, n |-> n, deg |-> deg, future_x |-> future_x,
        forecast_df |->
            [i \in 1..Len(preds) |->
                [key |-> future_keys[i], forecast |-> preds[i],
                 lower_band |-> Band(preds[i], -1, resid),
                 upper_band |-> Band(preds[i], 1, resid)]]]

\* a faulty future index: the last observed bucket is kept
future_index_from_last(last_date, fc_periods, freq) ==
    SubSeq(date_range(last_date, fc_periods + 1, freq), 1, fc_periods)

\* line 500: pd.date_range(start=last_date, periods=int(fc_periods) + 1, freq=freq)[1:]
future_index(last_date, fc_periods, freq) ==
    Tail(date_range(last_date, fc_periods + 1, freq))

NoFit == [series |-> <<>>, n |-> 0, deg |-> 0, future_x |-> <<>>, forecast_df |-> <<>>]
\* what run_forecast shows: the no-column warning (line 462), the
\* insufficient-data warning (lines 480, 536), the failure message (line
\* 577) or the forecast; propagates: an exception leaves the function
Shown(outcome, fit) == [outcome |-> outcome, propagates |-> FALSE, fit |-> fit]
Propagated == [outcome |-> "exception", propagates |-> TRUE, fit |-> NoFit]
\* an exception raised inside the try block
Raises == [outcome |-> "raise", propagates |-> FALSE, fit |-> NoFit]

\* a faulty resampling: the rows without a value stay in their bucket
tmp_series_keeps_null_values(f, date_col, fc_col, fc_freq) ==
    LET dates == [i \in 1..nrows(f) |-> to_datetime(f.data[i][col_pos(f, date_col)])]
        vals == column(f, col_pos(f, fc_col))
        tmp == {i \in 1..nrows(f) : notna(dates[i])}
        labels == SortedSeq({bucket(fc_freq, dates[i].n) : i \in tmp})
        members(l) == {i \in tmp : bucket(fc_freq, dates[i].n) = l}
    IN [b \in 1..Len(labels) |->
           [key |-> labels[b],
            value |-> Rat(SeqSum(nums(Pick(vals, members(labels[b])))),
                          Cardinality(members(labels[b])))]]

\* lines 468-475: the rows with a date and a value, resampled: per bucket of
\* the frequency that holds a row, the mean of its values, by ascending label
tmp_series(f, date_col, fc_col, fc_freq) ==
    LET dates == [i \in 1..nrows(f) |-> to_datetime(f.data[i][col_pos(f, date_col)])]
        vals == column(f, col_pos(f, fc_col))
        tmp == {i \in 1..nrows(f) : notna(dates[i]) /\ notna(vals[i])}
        labels == SortedSeq({bucket(fc_freq, dates[i].n) : i \in tmp})
        members(l) == {i \in tmp : bucket(fc_freq, dates[i].n) = l}
    IN [b \in 1..Len(labels) |->
           [key |-> labels[b],
            value |-> Rat(SeqSum(nums(Pick(vals, members(labels[b])))),
                          Cardinality(members(labels[b])))]]

\* line 533: df[fc_col].dropna().astype(float), the values under their row
\* labels
dropna_series(f, fc_col) ==
    LET vals == column(f, col_pos(f, fc_col))
        kept == SortedSeq({i \in 1..nrows(f) : notna(vals[i])})
    IN [k \in 1..Len(kept) |->
           [key |-> f.index[kept[k]], value |-> Rat(vals[kept[k]].n, 1)]]

\* the try block, lines 465-574
try_block(f, date_col, fc_col, fc_periods, fc_freq) ==
    IF ~IsNone(date_col) /\ ~IsNone(fc_freq)
    THEN \* df[[date_col, fc_col]] raises KeyError for a missing column
         IF ~has_column(f, Val(date_col)) \/ ~has_column(f, fc_col) THEN Raises
         \* the mean of a bucket of texts raises
         ELSE IF ~is_numeric(column(f, col_pos(f, fc_col))) THEN Raises
         ELSE LET s == tmp_series(f, Val(date_col), fc_col, Val(fc_freq))
                  n == Len(s)
              IN IF insufficient(n) THEN Shown("insufficient", NoFit)
                 ELSE LET last_date == s[n].key
                      IN Shown("forecast",
                               fit_and_project(s,
                                               future_index(last_date, fc_periods,
                                                            Val(fc_freq)),
                                               fc_periods))
    ELSE \* df[fc_col] raises KeyError, astype(float) raises on a text
         IF ~has_column(f, fc_col) THEN Raises
         ELSE IF ~is_numeric(column(f, col_pos(f, fc_col))) THEN Raises
         ELSE LET series == dropna_series(f, fc_col)
                  n == Len(series)
              IN IF insufficient(n) THEN Shown("insufficient", NoFit)
                 ELSE Shown("forecast",
                            fit_and_project(series,
                                            arange(n, n + fc_periods), fc_periods))

\* a faulty run_forecast: no except clause
run_forecast_no_except(f, date_col, fc_col, fc_periods, fc_freq) ==
    IF IsNone(fc_col) THEN Shown("no_column", NoFit)
    ELSE LET r == try_block(f, date_col, Val(fc_col), fc_periods, fc_freq)
         IN IF r.outcome = "raise" THEN Propagated ELSE r

\* run_forecast(df, date_col, fc_col, fc_periods, fc_freq)
run_forecast(f, date_col, fc_col, fc_periods, fc_freq) ==
    IF IsNone(fc_col) THEN Shown("no_column", NoFit)
    ELSE LET r == try_block(f, date_col, Val(fc_col), fc_periods, fc_freq)
         IN IF r.outcome = "raise" THEN Shown("failed", NoFit) ELSE r

-----------------------------------------------------------------------------
(* Column configuration of the sidebar (lines 891-903) *)

\* df.select_dtypes(include=['datetime', 'datetimetz']): a column of dates
is_datetime(col) == \A i \in 1..Len(col) : col[i].k \in {"date", "null"}

\* df.select_dtypes(include=['object']): any other column that is not numeric
is_object(col) == ~is_numeric(col) /\ ~is_datetime(col)

\* line 900: min(10, ...)
sample_size == 10

\* line 900: the rows .dropna().sample(min(10, len(...))) can return
samples(col) ==
    LET present == {i \in 1..Len(col) : notna(col[i])}
        size == IF Cardinality(present) < sample_size THEN Cardinality(present)
                ELSE sample_size
    IN {S \in SUBSET present : Cardinality(S) = size}

\* line 900: pd.to_datetime(sample, errors='coerce').notna().all()
sample_parses(col, S) == \A i \in S : notna(to_datetime(col[i]))

\* lines 893-903: the columns of a date type; when there is none, the object
\* columns whose sample smp[j] parses as dates
date_cols(f, smp) ==
    LET typed == {j \in 1..ncols(f) : is_datetime(column(f, j))}
    IN IF typed # {} THEN Pick(f.columns, typed)
       ELSE Pick(f.columns,
                 {j \in 1..ncols(f) :
                     is_object(column(f, j)) /\ sample_parses(column(f, j), smp[j])})

-----------------------------------------------------------------------------
(* SpecParse: the loader as a function of one file *)

\* the files of SpecParse: every grid as a CSV file, the smaller ones also as
\* the one table of a PDF file (that path has no header detection)
InitParse ==
    /\ \/ \E g \in GridsOver(ParseCells, MaxCells) :
              ReaderGrid(g) /\ arg = Some(File(name_a_csv, Readable(<<g>>)))
       \/ \E g \in GridsOver(ParseCells, MaxCells - 2) :
              arg = Some(File(name_r_pdf, Readable(<<g>>)))
    /\ ret = None
    /\ df = None /\ file_name = None /\ uploaded = None /\ last = Idle
    /\ pivot_df = None
    /\ session_kpi_cols = <<>> /\ session_date_col = None

CallLoader ==
    /\ IsNone(ret)
    /\ LET r == parse(Val(arg))
       IN ret' = Some([parsed |-> r, loaded |-> after_parse(r)])
    /\ UNCHANGED <<df, file_name, uploaded, arg, last, pivot_df, session_kpi_cols,
                 session_date_col>>

NextParse == CallLoader
SpecParse == InitParse /\ [][NextParse]_vars

-----------------------------------------------------------------------------
(* SpecLoad: load_data and load_sample_data called in any order *)

Init ==
    /\ df = None /\ file_name = None /\ uploaded = None
    /\ arg = None /\ ret = None /\ last = Idle
    /\ pivot_df = None
    /\ session_kpi_cols = <<>> /\ session_date_col = None

CallLoadData ==
    \E f \in LoadFiles :
        LET s == load_data(Session(df, file_name), f) IN
        /\ df' = s.df
        /\ file_name' = s.file_name
        /\ last' = [op |-> "load_data", name |-> Some(f.name),
                    parser |-> parser_of(f.name),
                    outcome |-> cached_outcome[f].outcome, had |-> ~IsNone(df)]
        /\ UNCHANGED <<uploaded, arg, ret, pivot_df, session_kpi_cols,
                 session_date_col>>

CallLoadSample ==
    /\ df' = load_sample_data.df
    /\ file_name' = load_sample_data.file_name
    /\ last' = [op |-> "load_sample_data", name |-> None, parser |-> "none",
                outcome |-> "stored", had |-> ~IsNone(df)]
    /\ UNCHANGED <<uploaded, arg, ret, pivot_df, session_kpi_cols,
                 session_date_col>>

NextLoad == CallLoadData \/ CallLoadSample
SpecLoad == Init /\ [][NextLoad]_vars

-----------------------------------------------------------------------------
(* Spec: the app, one action per rerun of main *)

\* one run of main with the uploader holding up and the sample button's value
Rerun(op, up, button) ==
    LET before == Session(df, file_name)
        s == main_sidebar(before, up, button)
    IN /\ df' = s.df
       /\ file_name' = s.file_name
       /\ uploaded' = up
       /\ last' = [op |-> op,
                   name |-> IF IsNone(up) THEN None ELSE Some(Val(up).name),
                   had |-> ~IsNone(df),
                   parser |-> IF calls_load_data(before, up)
                              THEN parser_of(Val(up).name) ELSE "none",
                   outcome |-> IF calls_load_data(before, up)
                               THEN cached_outcome[Val(up)].outcome ELSE "skipped"]
       /\ UNCHANGED <<arg, ret, pivot_df, session_kpi_cols,
                 session_date_col>>

\* the user puts a file into the uploader
UploadFile == \E f \in UploadFiles : Rerun("upload", Some(f), FALSE)

\* the user removes the file from the uploader
RemoveFile == ~IsNone(uploaded) /\ Rerun("remove", None, FALSE)

\* the user clicks Load Sample Data
ClickSample == Rerun("click_sample", uploaded, TRUE)

\* any other interaction (language, theme, a widget of a tab) reruns the script
OtherInteraction == Rerun("rerender", uploaded, FALSE)

Next == UploadFile \/ RemoveFile \/ ClickSample \/ OtherInteraction
Spec == Init /\ [][Next]_vars

-----------------------------------------------------------------------------
(* SpecPivot: generate_pivot as a function of a table and a request *)

\* the tables of the pivot specifications: a text column with nulls, a text
\* column, two numeric columns with nulls (the numbers multiples of 12)
PivotColumns == <<Str("Branch"), Str("Category"), Str("Sales"), Str("Quantity")>>
PivotRows ==
    {<<b, c, s, q>> : b \in {Null, Str("North"), Str("South")},
                      c \in {Str("A"), Str("B")},
                      s \in {Null, Num(12), Num(24)},
                      q \in {Null, Num(12)}}
PivotTable(data) ==
    [columns |-> PivotColumns, index |-> RangeIndex(Len(data)), data |-> data]

\* a table load_data can have stored: no row and no column of it is empty
IsStored(t) == post_drop(t) = t

\* the subsequences of seq
SubSeqs(seq) == {Pick(seq, S) : S \in SUBSET (1..Len(seq))}

\* the requests the widgets of the pivot tab can hold for table f (lines
\* 1061-1069); the checked ones take the row fields before the column fields
\* and never column fields alone
Requests(f) ==
    {[row_fields |-> r, col_fields |-> c, value_cols |-> v, agg_type |-> a] :
        r \in {<<>>, <<Str("Branch")>>, <<Str("Branch"), Str("Category")>>},
        c \in {<<>>, <<Str("Category")>>},
        v \in SubSeqs(numeric_cols(f)),
        a \in agg_map}

\* the requests whose outcome the model of pd.pivot_table covers: the fields
\* are distinct, column fields come with row fields, a group is left
\* the requests given to generate_pivot: those of the tab, and the same with
\* a selector that agg_map does not hold
CallRequests(f) ==
    Requests(f) \cup {[r EXCEPT !.agg_type = "var"] : r \in Requests(f)}

Modelled(f, req) ==
    LET keys == req.row_fields \o req.col_fields
        vals == value_columns(f, keys,
                    IF req.value_cols = <<>> THEN None ELSE Some(req.value_cols))
    IN /\ ~has_duplicates(keys)
       /\ Len(req.col_fields) > 0 => Len(req.row_fields) > 0
       /\ Len(keys) > 0 =>
              agged_groups(f, keys, vals, agg_map_get(req.agg_type)) # {}

InitPivot ==
    /\ \E n \in 1..MaxPivotRows : \E d \in [1..n -> PivotRows] :
           LET t == PivotTable(d) IN
           /\ IsStored(t)
           /\ \E req \in CallRequests(t) :
                  /\ Modelled(t, req)
                  /\ ~rejects(req.value_cols, req.agg_type)
                  /\ arg = Some([df |-> t, req |-> req])
    /\ ret = None
    /\ df = None /\ file_name = None /\ uploaded = None /\ last = Idle
    /\ pivot_df = None
    /\ session_kpi_cols = <<>> /\ session_date_col = None

CallGeneratePivot ==
    /\ IsNone(ret)
    /\ LET a == Val(arg)
       IN ret' = Some([pvt |-> generate_pivot(a.df, a.req.row_fields, a.req.col_fields,
                               IF a.req.value_cols = <<>> THEN None
                               ELSE Some(a.req.value_cols),
                               a.req.agg_type)])
    /\ UNCHANGED <<df, file_name, uploaded, arg, last, pivot_df, session_kpi_cols,
                 session_date_col>>

NextPivot == CallGeneratePivot
SpecPivot == InitPivot /\ [][NextPivot]_vars

-----------------------------------------------------------------------------
(* SpecPivotTab: the Generate Pivot button of the pivot tab, on a loaded table *)

\* the rows of the loaded table: two branches, one category
TabRows == {<<b, Str("A"), Num(12), Num(12)>> : b \in {Str("North"), Str("South")}}

InitPivotTab ==
    /\ \E n \in 1..MaxTabRows : \E d \in [1..n -> TabRows] :
           IsStored(PivotTable(d)) /\ df = Some(PivotTable(d))
    /\ file_name = Some(name_a_csv)
    /\ uploaded = None /\ arg = None /\ ret = None /\ last = Idle
    /\ pivot_df = None
    /\ session_kpi_cols = <<>> /\ session_date_col = None

\* the user sets the widgets of the tab to req and clicks Generate Pivot
ClickGeneratePivot ==
    \E req \in Requests(Val(df)) :
        /\ Modelled(Val(df), req)
        /\ LET b == pivot_button(pivot_df, Val(df), req) IN
           /\ pivot_df' = b.pivot_df
           /\ last' = [op |-> "generate_pivot", name |-> None,
                       parser |-> IF b.called THEN "generate_pivot" ELSE "none",
                       outcome |-> IF ~b.called THEN "rejected"
                                   ELSE IF IsNone(b.pivot_df) THEN "failed"
                                   ELSE "pivot",
                       had |-> ~IsNone(pivot_df)]
        /\ arg' = Some(req)
        /\ UNCHANGED <<df, file_name, uploaded, ret, session_kpi_cols, session_date_col>>

NextPivotTab == ClickGeneratePivot
SpecPivotTab == InitPivotTab /\ [][NextPivotTab]_vars

-----------------------------------------------------------------------------
(* SpecForecast: run_forecast as a function of a table and a request *)

\* the keys of st.session_state
AppSession ==
    [df |-> df, file_name |-> file_name, pivot_df |-> pivot_df,
     kpi_cols |-> session_kpi_cols, date_col |-> session_date_col]

\* a faulty run_forecast: line 469 converts the date column of the table itself
after_run_forecast_in_place(sess, date_col, fc_col) ==
    LET f == Val(sess.df) IN
    IF IsNone(date_col) \/ IsNone(fc_col) THEN sess
    ELSE IF ~has_column(f, Val(date_col)) \/ ~has_column(f, Val(fc_col)) THEN sess
    ELSE [sess EXCEPT !.df =
             Some([f EXCEPT !.data =
                      [i \in 1..nrows(f) |->
                          [f.data[i] EXCEPT ![col_pos(f, Val(date_col))] =
                              to_datetime(@)]]])]

\* the session after run_forecast(df, date_col, fc_col, ...), lines 455-577:
\* tmp is a copy of two columns (line 468) and series a new object (line
\* 533), so lines 469-475 assign to neither the table nor st.session_state
after_run_forecast(sess, date_col, fc_col) == sess

\* the tables of SpecForecast: a date column, a text column of dates, a text
\* column and a numeric column. A row takes the next day of the calendar
\* below, the day of the row before it, or no date.
ForecastColumns == <<Str("Date"), Str("When"), Str("Category"), Str("Sales")>>

\* the p-th day the rows take: 1 and 2 January 2024, then the 1st of March,
\* April, ... (no row in February)
day_at(p) == IF p = 2 THEN 1 ELSE month_start(p - 1)

\* rows of every kind, and rows on consecutive days only
MixedRows ==
    {[date |-> "next", value |-> Num(100)], [date |-> "same", value |-> Num(150)],
     [date |-> "none", value |-> Num(100)], [date |-> "next", value |-> Null]}
RegularRows == {[date |-> "next", value |-> Num(100)], [date |-> "next", value |-> Num(150)]}

ForecastTable(rows) ==
    LET at(i) == Cardinality({q \in 1..i : rows[q].date = "next"})
    IN [columns |-> ForecastColumns,
        index |-> RangeIndex(Len(rows)),
        data |-> [i \in 1..Len(rows) |->
                    <<IF rows[i].date = "none" THEN Null
                      ELSE Date(day_at(IF at(i) = 0 THEN 1 ELSE at(i))),
                      Str(IF i % 2 = 1 THEN "2024-02-01" ELSE "2024-01-01"),
                      Str("A"),
                      rows[i].value>>]]

ForecastRequest(d, c, p, fq) ==
    [date_col |-> d, fc_col |-> c, fc_periods |-> p, fc_freq |-> Some(fq)]

\* the checked calls: without a date column (the tab passes 'D' then, line
\* 1119) for every choice of the forecast column; with a date column for the
\* numeric column at every frequency; with a column the table does not have
ForecastRequests ==
    {ForecastRequest(None, c, p, "D") :
        c \in {None, Some(Str("Sales")), Some(Str("Category")), Some(Str("Missing"))},
        p \in 1..MaxHorizon}
    \cup {ForecastRequest(Some(d), Some(Str("Sales")), p, fq) :
        d \in {Str("Date"), Str("When")}, p \in 1..MaxHorizon, fq \in freq_options_map}
    \cup {ForecastRequest(Some(Str("Missing")), Some(Str("Sales")), 1, "D"),
          ForecastRequest(Some(Str("Date")), Some(Str("Missing")), 1, "D")}

\* the session holds the table given to run_forecast (line 884), a pivot of
\* it, a KPI selection and the date column passed (line 1118)
InitForecast ==
    /\ \/ \E n \in 1..MaxMixedRows : \E rows \in [1..n -> MixedRows] :
              /\ IsStored(ForecastTable(rows))
              /\ \E req \in ForecastRequests :
                     arg = Some([df |-> ForecastTable(rows), req |-> req])
       \/ \E n \in 1..MaxPoints : \E rows \in [1..n -> RegularRows] :
              \E req \in ForecastRequests :
                  arg = Some([df |-> ForecastTable(rows), req |-> req])
    /\ ret = None
    /\ df = Some(Val(arg).df) /\ file_name = Some(name_a_csv)
    /\ uploaded = None /\ last = Idle
    /\ pivot_df = generate_pivot(Val(arg).df, <<Str("Category")>>, <<>>,
                                 Some(<<Str("Sales")>>), "count")
    /\ session_kpi_cols = <<Str("Sales")>>
    /\ session_date_col = Val(arg).req.date_col

CallRunForecast ==
    /\ IsNone(ret)
    /\ LET a == Val(arg)
           s == after_run_forecast(AppSession, a.req.date_col, a.req.fc_col)
       IN /\ ret' = Some(run_forecast(Val(df), a.req.date_col, a.req.fc_col,
                                      a.req.fc_periods, a.req.fc_freq))
          /\ df' = s.df
          /\ file_name' = s.file_name
          /\ pivot_df' = s.pivot_df
          /\ session_kpi_cols' = s.kpi_cols
          /\ session_date_col' = s.date_col
    /\ UNCHANGED <<uploaded, arg, last>>

NextForecast == CallRunForecast
SpecForecast == InitForecast /\ [][NextForecast]_vars

-----------------------------------------------------------------------------
(* SpecConfig: the column configuration as a function of the table *)

\* the columns a table of SpecConfig is made of, each with the cells it takes
ConfigColumns ==
    <<[name |-> Str("Date"), cells |-> <<Date(0), Null>>],
      [name |-> Str("When"), cells |-> <<Str("2024-01-01"), Null>>],
      [name |-> Str("Note"), cells |-> <<Str("2024-02-01"), Str("A")>>],
      [name |-> Str("Sales"), cells |-> <<Num(12), Null>>]>>

ConfigTable(cols, pick) ==
    [columns |-> [j \in 1..Len(cols) |-> ConfigColumns[cols[j]].name],
     index |-> RangeIndex(Len(pick)),
     data |-> [i \in 1..Len(pick) |->
                 [j \in 1..Len(cols) |-> ConfigColumns[cols[j]].cells[pick[i][j]]]]]

InitConfig ==
    /\ \E S \in SUBSET (1..Len(ConfigColumns)) : \E n \in 1..MaxConfigRows :
           LET cols == SortedSeq(S) IN
           /\ S # {}
           /\ \E pick \in [1..n -> [1..Len(cols) -> 1..2]] :
                  LET t == ConfigTable(cols, pick) IN
                  /\ IsStored(t)
                  /\ \E smp \in [1..Len(cols) ->
                                     UNION {samples(column(t, j)) : j \in 1..Len(cols)}] :
                         /\ \A j \in 1..Len(cols) : smp[j] \in samples(column(t, j))
                         /\ arg = Some([df |-> t, smp |-> smp])
    /\ ret = None
    /\ df = None /\ file_name = None /\ uploaded = None /\ last = Idle
    /\ pivot_df = None
    /\ session_kpi_cols = <<>> /\ session_date_col = None

\* lines 891-903
CallColumnConfig ==
    /\ IsNone(ret)
    /\ LET a == Val(arg)
       IN ret' = Some([numeric_cols |-> numeric_cols(a.df),
                       date_cols |-> date_cols(a.df, a.smp)])
    /\ UNCHANGED <<df, file_name, uploaded, arg, last, pivot_df, session_kpi_cols,
                 session_date_col>>

NextConfig == CallColumnConfig
SpecConfig == InitConfig /\ [][NextConfig]_vars

-----------------------------------------------------------------------------
(* SpecApp: the app with its column configuration and its pivot tab, one
   action per rerun of main *)

\* the samples line 900 can draw for the columns of table f; no sample is
\* drawn when a column has a date type (line 896)
RenderSamples(f) ==
    IF \E j \in 1..ncols(f) : is_datetime(column(f, j))
    THEN {[j \in 1..ncols(f) |-> {}]}
    ELSE {s \in [1..ncols(f) -> UNION {samples(column(f, j)) : j \in 1..ncols(f)}] :
             \A j \in 1..ncols(f) : s[j] \in samples(column(f, j))}

\* the first name of a list, as a list
First(names) == IF names = <<>> THEN <<>> ELSE <<Head(names)>>

\* the requests made in the pivot tab (lines 1061-1069): no row field or the
\* first text column, no value column or the first numeric one, summed
TabRequests(f) ==
    {[row_fields |-> r, col_fields |-> <<>>, value_cols |-> v, agg_type |-> "sum"] :
        r \in {<<>>, First(Pick(f.columns, {j \in 1..ncols(f) : is_object(column(f, j))}))},
        v \in {<<>>, First(numeric_cols(f))}}

\* lines 1056-1079: the pivot tab of a run over table f. A multiselect of the
\* tab keeps the selection made when its options are those it was made from
\* (same_cols, same_numeric), and returns its default, the empty list,
\* otherwise
tab_pivot(pvt, f, ev, same_cols, same_numeric) ==
    IF ev.kind # "click_pivot" THEN pvt
    ELSE pivot_button(pvt, f,
                      [ev.value EXCEPT
                          !.row_fields = IF same_cols THEN @ ELSE <<>>,
                          !.value_cols = IF same_numeric THEN @ ELSE <<>>]).pivot_df

\* lines 891-1092: the run from the column configuration on, over the table
\* f just loaded or kept, with its numeric columns and the options of the
\* date selector. outcome: "index_error" (line 916 raises ValueError and the
\* run ends there) or "done"
configure(sess, f, ev, numeric, options) ==
    LET \* line 906: the multiselect returns the selection made, or its
        \* default (line 909)
        kpis == IF ev.kind = "select_kpis" /\ Range(ev.value) \subseteq Range(numeric)
                THEN ev.value
                ELSE SelectSeq(sess.kpi_cols, LAMBDA c : c \in Range(numeric))
        before == sess.df
    IN IF ~IsNone(sess.date_col) /\ sess.date_col \notin Range(options)
       THEN [session |-> [sess EXCEPT !.df = Some(f), !.kpi_cols = kpis],
             outcome |-> "index_error"]
       ELSE [session |->
                [sess EXCEPT
                    !.df = Some(f),
                    !.kpi_cols = kpis,
                    !.date_col = IF ev.kind = "select_date" /\ ev.value \in Range(options)
                                 THEN ev.value ELSE @,
                    !.pivot_df =
                        tab_pivot(@, f, ev,
                                  ~IsNone(before) /\ Val(before).columns = f.columns,
                                  ~IsNone(before) /\ numeric_cols(Val(before)) = numeric)],
             outcome |-> "done"]

\* lines 879-1092: the run after the sidebar left the session table s_df and
\* file name s_name. outcome "prompt": no table, return at line 881
after_sidebar(sess, s_df, s_name, ev, smp) ==
    IF IsNone(s_df) THEN [session |-> [sess EXCEPT !.df = s_df, !.file_name = s_name],
                          outcome |-> "prompt"]
    ELSE configure([sess EXCEPT !.file_name = s_name], Val(s_df), ev,
                   numeric_cols(Val(s_df)),
                   <<None>> \o [i \in 1..Len(date_cols(Val(s_df), smp)) |->
                                  Some(date_cols(Val(s_df), smp)[i])])

Event(kind, value) == [kind |-> kind, value |-> value]

\* the session and the outcome r of a run become the state
Ends(r, up, ev) ==
    /\ df' = r.session.df
    /\ file_name' = r.session.file_name
    /\ pivot_df' = r.session.pivot_df
    /\ session_kpi_cols' = r.session.kpi_cols
    /\ session_date_col' = r.session.date_col
    /\ uploaded' = up
    /\ last' = [op |-> ev.kind, name |-> None, parser |-> "none",
                outcome |-> r.outcome, had |-> ~IsNone(df)]
    /\ UNCHANGED <<arg, ret>>

\* the run after the sidebar, with one of the samples line 900 can draw
Renders(s, up, ev) ==
    \E smp \in IF IsNone(s.df) THEN {<<>>} ELSE RenderSamples(Val(s.df)) :
        Ends(after_sidebar(AppSession, s.df, s.file_name, ev, smp), up, ev)

\* main, lines 841-1092: one run of the script with the uploader holding up,
\* started by the interaction ev
AppRun(up, ev) ==
    Renders(main_sidebar(Session(df, file_name), up, ev.kind = "click_sample"), up, ev)

\* the files uploaded in SpecApp
AppFiles == {f \in UploadFiles : f.name = name_a_csv}

\* the user puts a file into the uploader, removes it, clicks Load Sample
\* Data, or touches a widget that changes no session key
AppUpload == \E f \in AppFiles : AppRun(Some(f), Event("upload", <<>>))
AppRemove == ~IsNone(uploaded) /\ AppRun(None, Event("remove", <<>>))
AppSample == AppRun(uploaded, Event("click_sample", <<>>))
AppOther == AppRun(uploaded, Event("rerender", <<>>))

\* the user changes the KPI selection (the multiselect was rendered)
SelectKpis ==
    /\ last.outcome \in {"done", "index_error"}
    /\ \E c \in {<<>>, First(numeric_cols(Val(df)))} :
           AppRun(uploaded, Event("select_kpis", c))

\* the user picks an option of the date selector (it was rendered)
SelectDate ==
    /\ last.outcome = "done"
    /\ \E smp \in RenderSamples(Val(df)) :
           \E d \in {None} \cup {Some(x) : x \in Range(date_cols(Val(df), smp))} :
               AppRun(uploaded, Event("select_date", d))

\* the user sets the widgets of the pivot tab and clicks Generate Pivot
ClickPivot ==
    /\ last.outcome = "done"
    /\ \E req \in TabRequests(Val(df)) :
           /\ Modelled(Val(df), req)
           /\ AppRun(uploaded, Event("click_pivot", req))

InitApp == Init
NextApp ==
    AppUpload \/ AppRemove \/ AppSample \/ AppOther \/ SelectKpis \/ SelectDate
        \/ ClickPivot
SpecApp == InitApp /\ [][NextApp]_vars

-----------------------------------------------------------------------------
(* Claims about the loader as a function of one file (SpecParse) *)

TheFile == Val(arg)
TheGrid == TheFile.content.grids[1]
IsCsv == parser_of(TheFile.name) = "excel_csv"
Called == ~IsNone(ret)
Parsed == Val(ret).parsed
Loaded == Val(ret).loaded
\* the grid after the fully-empty rows and columns are removed
Cleaned == drop_empty(RawFrame(TheGrid))

\* the position (from 1) of the first row of f with the most non-null cells
FirstDensest(f) ==
    CHOOSE i \in 1..nrows(f) :
        /\ \A q \in 1..nrows(f) : notna_count(f, q) <= notna_count(f, i)
        /\ \A q \in 1..(i - 1) : notna_count(f, q) < notna_count(f, i)

\* the texts of the cells of rows
Texts(rows) ==
    [i \in 1..Len(rows) |-> [j \in 1..Len(rows[i]) |-> astype_str(rows[i][j])]]

\* C1: for every grid with a non-empty row, the row parse_excel_csv reads as
\* the header is the first row with the most non-null cells among the rows
\* left after the empty rows and columns are removed, also when empty rows
\* were removed above it.
C1_HeaderIsFirstDensestRow ==
    (Called /\ IsCsv /\ ~empty(Cleaned)) =>
        /\ ~iloc_raises(Cleaned, header_row(Cleaned))
        /\ iloc(Cleaned, header_row(Cleaned)) = Cleaned.data[FirstDensest(Cleaned)]
        /\ Parsed.tag = "frame" =>
               Parsed.frame.columns =
                   clean_names(header_names(Cleaned, FirstDensest(Cleaned) - 1))

\* C2: the data body of the table parse_excel_csv returns is exactly the rows
\* strictly below the detected header row (the first densest row), in their
\* order; the rows above it are discarded.
C2_BodyIsRowsBelowHeader ==
    (Called /\ IsCsv /\ Parsed.tag = "frame") =>
        Texts(Parsed.frame.data) =
            Texts(Pick(Cleaned.data, (FirstDensest(Cleaned) + 1)..nrows(Cleaned)))

\* C3: every candidate column name that is empty after trimming or starts
\* with "Unnamed" becomes Column_<i>, i its 0-based position after the empty
\* columns were removed; every other candidate name is kept.
C3_PlaceholderNamesReplaced ==
    (Called /\ IsCsv /\ Parsed.tag = "frame") =>
        LET cand == header_names(Cleaned, header_row(Cleaned))
            cols == Parsed.frame.columns
        IN /\ Len(cols) = Len(cand)
           /\ \A j \in 1..Len(cand) :
                  cols[j] = IF cand[j].s = "" \/ startswith_Unnamed(cand[j].s)
                            THEN Column_(j - 1)
                            ELSE cand[j]

\* C3 witness: the first column of the grid is empty and was removed, and the
\* name under what was column 1 of the grid became Column_0
C3_Witness ==
    /\ Called /\ IsCsv /\ Parsed.tag = "frame"
    /\ Len(TheGrid[1]) = 2
    /\ \A i \in 1..Len(TheGrid) : TheGrid[i][1] = Null
    /\ Parsed.frame.columns = <<Column_(0)>>
    /\ nrows(Parsed.frame) >= 1

\* the table of the file before any numeric coercion, after load_data's drops
SourceFrame ==
    post_drop(IF IsCsv THEN named_body(Cleaned, header_row(Cleaned))
              ELSE table_frame(TheGrid))

AllParse(col) ==
    \A i \in 1..Len(col) : col[i].k = "null" \/ col[i].s \in NumericTexts

\* C4: numeric coercion is all-or-nothing per column: a column of the loaded
\* table is numeric (nulls kept) when every non-null value of it parses as a
\* number, and is otherwise left as it was, text, the parsable values included.
C4_CoercionAllOrNothing ==
    (Called /\ Loaded.outcome = "stored") =>
        LET F == Loaded.frame IN
        /\ nrows(F) = nrows(SourceFrame) /\ ncols(F) = ncols(SourceFrame)
        /\ \A j \in 1..ncols(F) :
               LET src == column(SourceFrame, j) IN
               column(F, j) =
                   IF AllParse(src)
                   THEN [i \in 1..Len(src) |->
                            IF src[i].k = "null" THEN Null ELSE Num(numval(src[i].s))]
                   ELSE src

\* C4 witness: a loaded column holds the text "1" next to the text "A"
C4_Witness ==
    /\ Called /\ Loaded.outcome = "stored"
    /\ \E j \in 1..ncols(Loaded.frame) :
           {Str("1"), Str("A")} \subseteq Range(column(Loaded.frame, j))

\* C5: when columns end up with the same sanitized name, the load produces a
\* table that keeps the first column of each name and drops the later ones.
C5_DuplicateNamesKeepFirst ==
    (/\ Called /\ IsCsv /\ ~empty(Cleaned)
     /\ ~iloc_raises(Cleaned, header_row(Cleaned))
     /\ has_duplicates(named_body(Cleaned, header_row(Cleaned)).columns)) =>
        LET body == named_body(Cleaned, header_row(Cleaned))
            first == {j \in 1..ncols(body) : ~duplicated(body.columns, j)}
        IN /\ Parsed.tag = "frame"
           /\ Parsed.frame.columns = Pick(body.columns, first)
           /\ nrows(Parsed.frame) = nrows(body)

-----------------------------------------------------------------------------
(* Claims about load_data and the session (SpecLoad) *)

\* C6: the table held in the session is absent or has at least one row and
\* at least one column.
C6_NoEmptyTableStored ==
    IsNone(df) \/ (nrows(Val(df)) >= 1 /\ ncols(Val(df)) >= 1)

\* C7 as stated: a load that fails to produce a table leaves the table held
\* before, and its file name, in the session.
C7_FailedLoadKeepsTable ==
    [][(last'.op = "load_data" /\ last'.outcome = "cleared") =>
           (df' = df /\ file_name' = file_name)]_vars

\* C7 amended: a load of a supported file type that fails to produce a table
\* sets the session's table and file name to None.
C7_FailedLoadClearsSession ==
    (last.op = "load_data" /\ last.outcome = "cleared") =>
        (IsNone(df) /\ IsNone(file_name))

\* C7 witness: a failed load while a table was held
C7_Witness ==
    last.op = "load_data" /\ last.outcome = "cleared" /\ last.had /\ IsNone(df)

\* C10: load_data accepts exactly the names that end, in any letter case, in
\* .csv, .xls, .xlsx, .pdf, .html or .htm; for any other name it calls no
\* parser and leaves the session's table and file name as they were.
C10_ExtensionDispatch ==
    [][last'.op = "load_data" =>
           IF Val(last'.name) \in SupportedNames
           THEN last'.parser # "none" /\ last'.outcome # "unsupported"
           ELSE /\ last'.parser = "none" /\ last'.outcome = "unsupported"
                /\ df' = df /\ file_name' = file_name]_vars

\* C10 witness: a file of another extension was rejected while a table was held
C10_Witness ==
    /\ last.op = "load_data" /\ last.outcome = "unsupported"
    /\ last.had /\ ~IsNone(df)

\* C20: the column names of every table held in the session, whatever file
\* type or sample it was loaded from, are texts, none blank, no two the same.
C20_ColumnNamesDistinctNotBlank ==
    ~IsNone(df) =>
        LET cols == Val(df).columns IN
        /\ ~has_duplicates(cols)
        /\ \A j \in 1..Len(cols) : cols[j].k = "str" /\ strip(cols[j].s) # ""

-----------------------------------------------------------------------------
(* Claims about the reruns of main (Spec) *)

\* C8: when the user uploads a file that parses, the session holds the table
\* parsed from that file after the rerun, whatever the file's name.
C8_UploadReplacesTable ==
    [][(last'.op = "upload" /\ cached_outcome[Val(uploaded')].outcome = "stored") =>
           /\ df' = Some(cached_outcome[Val(uploaded')].frame)
           /\ file_name' = Some(Val(uploaded').name)]_vars

\* C9: a loaded table stays the session's table across every rerun caused by
\* another interaction.
C9_TablePersistsAcrossReruns ==
    [][(last'.op = "rerender" /\ ~IsNone(df)) =>
           (df' = df /\ file_name' = file_name)]_vars

-----------------------------------------------------------------------------
(* Claims about the pivot tab (SpecPivotTab) *)

\* C11: a pivot request without value columns and with an aggregation other
\* than "count" is rejected without calling generate_pivot; every request
\* with "count", or with a value column, calls generate_pivot.
C11_RejectedBeforeComputation ==
    last.op = "generate_pivot" =>
        IF Val(arg).value_cols = <<>> /\ Val(arg).agg_type # "count"
        THEN last.outcome = "rejected" /\ last.parser = "none"
        ELSE last.outcome # "rejected" /\ last.parser = "generate_pivot"

\* C11 witness: a "count" request without value columns was computed
C11_Witness ==
    /\ last.op = "generate_pivot" /\ last.outcome = "pivot"
    /\ Val(arg).value_cols = <<>> /\ Val(arg).agg_type = "count"

\* C19 as stated: after a rejected request or a failed computation the pivot
\* result stored before is still the stored one.
C19_NoPivotKeepsPrevious ==
    [][(last'.op = "generate_pivot" /\ last'.outcome \in {"rejected", "failed"}) =>
           pivot_df' = pivot_df]_vars

\* C19 amended: after a rejected request or a failed computation the stored
\* pivot result is None, whatever was stored before.
C19_NoPivotClearsPrevious ==
    (last.op = "generate_pivot" /\ last.outcome \in {"rejected", "failed"}) =>
        IsNone(pivot_df)

\* C19 witness: the computation failed while a pivot result was stored
C19_Witness ==
    last.op = "generate_pivot" /\ last.outcome = "failed" /\ last.had

-----------------------------------------------------------------------------
(* Claims about generate_pivot as a function (SpecPivot) *)

PivotArg == Val(arg)
PivotCalled == ~IsNone(ret) /\ ~IsNone(Val(ret).pvt)
Pvt == Val(Val(ret).pvt)

\* the sum of column v over the rows of f whose cells under fields are key
GroupSum(f, fields, key, v) ==
    SeqSum(nums(Pick(column(f, col_pos(f, v)),
                     {i \in 1..nrows(f) : key_of(f, fields, i) = key})))

\* the row groups of f under fields: the rows without a null key
RowGroups(f, fields) ==
    {key_of(f, fields, i) :
        i \in {i \in 1..nrows(f) : \A q \in 1..Len(fields) : notna(key_of(f, fields, i)[q])}}

RECURSIVE SetSum(_, _, _, _)
SetSum(f, fields, keyset, v) ==
    IF keyset = {} THEN 0
    ELSE LET g == CHOOSE g \in keyset : TRUE
         IN GroupSum(f, fields, g, v) + SetSum(f, fields, keyset \ {g}, v)

\* C12: with aggfunc "sum", row fields and no column fields, every body cell
\* is the sum of its value column over the rows of its row group, and the
\* margin row "All" holds the sum of the value column over all groups.
C12_GroupBySumWithMargin ==
    (/\ PivotCalled /\ PivotArg.req.agg_type = "sum"
     /\ PivotArg.req.row_fields # <<>> /\ PivotArg.req.col_fields = <<>>) =>
        LET f == PivotArg.df
            fields == PivotArg.req.row_fields
            n == Len(Pvt.index)
        IN /\ Range(SubSeq(Pvt.index, 1, n - 1)) = RowGroups(f, fields)
           /\ Pvt.index[n] = all_key(Len(fields))
           /\ Range(Pvt.columns) = {<<v>> : v \in Range(PivotArg.req.value_cols)}
           /\ \A j \in 1..Len(Pvt.columns) :
                  /\ \A i \in 1..(n - 1) :
                         Pvt.data[i][j] =
                             Num(GroupSum(f, fields, Pvt.index[i], Pvt.columns[j][1]))
                  /\ Pvt.data[n][j] =
                         Num(SetSum(f, fields, RowGroups(f, fields), Pvt.columns[j][1]))

\* C13: in every pivot result no cell is null, and every body cell whose
\* combination of row group and column group has no row in the table holds 0.
C13_MissingCombinationsAreZero ==
    PivotCalled =>
        LET f == PivotArg.df
            keys == PivotArg.req.row_fields \o PivotArg.req.col_fields
            nr == Len(PivotArg.req.row_fields)
            nc == Len(PivotArg.req.col_fields)
        IN \A i \in 1..Len(Pvt.index) : \A j \in 1..Len(Pvt.columns) :
               /\ notna(Pvt.data[i][j])
               /\ (/\ Pvt.index[i] # all_key(nr)
                   /\ Tail(Pvt.columns[j]) # all_key(nc)
                   /\ ~\E r \in 1..nrows(f) :
                          key_of(f, keys, r) = Pvt.index[i] \o Tail(Pvt.columns[j]))
                  => Pvt.data[i][j] = Num(0)

-----------------------------------------------------------------------------
(* Claims about run_forecast as a function (SpecForecast) *)

FcArg == Val(arg)
FcReq == FcArg.req
FcCalled == ~IsNone(ret)
FcRet == Val(ret)
DateMode == ~IsNone(FcReq.date_col)

\* the call names columns of the table, the forecast column a numeric one
WellTyped ==
    /\ ~IsNone(FcReq.fc_col) /\ has_column(FcArg.df, Val(FcReq.fc_col))
    /\ is_numeric(column(FcArg.df, col_pos(FcArg.df, Val(FcReq.fc_col))))
    /\ DateMode => has_column(FcArg.df, Val(FcReq.date_col))

\* the rows that count: a value, and in date mode a date that parses
UsableRows ==
    LET f == FcArg.df IN
    {i \in 1..nrows(f) :
        /\ notna(f.data[i][col_pos(f, Val(FcReq.fc_col))])
        /\ DateMode => notna(to_datetime(f.data[i][col_pos(f, Val(FcReq.date_col))]))}

\* the bucket labels of the usable rows (date mode)
UsableBuckets ==
    LET f == FcArg.df IN
    {bucket(Val(FcReq.fc_freq),
            to_datetime(f.data[i][col_pos(f, Val(FcReq.date_col))]).n) : i \in UsableRows}

\* the number of usable points: non-empty buckets, or non-null values
UsablePoints ==
    IF DateMode THEN Cardinality(UsableBuckets) ELSE Cardinality(UsableRows)

\* C14: run_forecast reports insufficient data, and produces no forecast,
\* exactly when fewer than 2 usable points remain.
C14_InsufficientBelowTwoPoints ==
    (FcCalled /\ WellTyped) =>
        IF UsablePoints < 2
        THEN FcRet.outcome = "insufficient" /\ FcRet.fit.forecast_df = <<>>
        ELSE FcRet.outcome = "forecast"

\* C14 witness: two rows with a date and a value fall in one bucket
C14_Witness ==
    /\ FcCalled /\ WellTyped /\ DateMode
    /\ Cardinality(UsableRows) >= 2 /\ UsablePoints = 1
    /\ FcRet.outcome = "insufficient"

\* C15: the degree of the fit is 1 for 2 to 5 usable points and 2 for 6 or
\* more, in date mode and in index mode.
C15_DegreeSwitchesAtSix ==
    (FcCalled /\ FcRet.outcome = "forecast") =>
        /\ FcRet.fit.n = UsablePoints
        /\ FcRet.fit.deg = IF UsablePoints >= 6 THEN 2 ELSE 1

\* C15 witness: six buckets in date mode, fitted with degree 2
C15_Witness ==
    /\ FcCalled /\ FcRet.outcome = "forecast" /\ DateMode
    /\ UsablePoints = 6 /\ FcRet.fit.deg = 2

\* the largest element of a set of integers
Max(S) == CHOOSE x \in S : \A y \in S : y <= x

\* day d starts a period of the frequency
OnFrequency(fq, d) == bucket(fq, d) = d

\* day e is the first day on the frequency after day d
NextPeriod(fq, d, e) ==
    /\ d < e /\ OnFrequency(fq, e)
    /\ \A x \in (d + 1)..(e - 1) : ~OnFrequency(fq, x)

\* the fitted series: the values in index mode, the bucket means in date mode
FcSeries ==
    IF DateMode
    THEN LET s == tmp_series(FcArg.df, Val(FcReq.date_col), Val(FcReq.fc_col),
                             Val(FcReq.fc_freq))
         IN [i \in 1..Len(s) |-> s[i].value]
    ELSE LET v == nums(column(FcArg.df, col_pos(FcArg.df, Val(FcReq.fc_col))))
         IN [i \in 1..Len(v) |-> Rat(v[i], 1)]

\* C16: a forecast has fc_periods future entries, at the positions n, ...,
\* n + fc_periods - 1; their keys are those positions in index mode, and in
\* date mode the fc_periods periods of the frequency after the last bucket.
C16_HorizonEntriesAfterLast ==
    (FcCalled /\ FcRet.outcome = "forecast") =>
        LET h == FcReq.fc_periods
            fdf == FcRet.fit.forecast_df
            n == UsablePoints
        IN /\ Len(fdf) = h
           /\ FcRet.fit.future_x = [i \in 1..h |-> n + i - 1]
           /\ \A i \in 1..h :
                  fdf[i].forecast =
                      model(polyfit(FcSeries, FcRet.fit.deg), n + i - 1)
           /\ ~DateMode => \A i \in 1..h : fdf[i].key = n + i - 1
           /\ DateMode =>
                  \A i \in 1..h :
                      NextPeriod(Val(FcReq.fc_freq),
                                 IF i = 1 THEN Max(UsableBuckets) ELSE fdf[i - 1].key,
                                 fdf[i].key)

\* C16 witness: a weekly forecast of two periods or more
C16_Witness ==
    /\ FcCalled /\ FcRet.outcome = "forecast" /\ DateMode
    /\ FcReq.fc_freq = Some("W-MON") /\ FcReq.fc_periods >= 2
    /\ Len(FcRet.fit.forecast_df) = FcReq.fc_periods

\* the values of the forecast column that are not null, in row order
FcValues == nums(column(FcArg.df, col_pos(FcArg.df, Val(FcReq.fc_col))))

C18_FailuresAreCaught ==
    FcCalled =>
        /\ ~FcRet.propagates
        /\ (~IsNone(FcReq.fc_col) /\ ~WellTyped) => FcRet.outcome = "failed"

\* C18 witness: the forecast column named is a text column
C18_Witness ==
    /\ FcCalled /\ FcReq.fc_col = Some(Str("Category"))
    /\ FcRet.outcome = "failed" /\ ~FcRet.propagates

\* the usable rows whose date falls in the bucket labelled l (date mode)
RowsInBucket(l) ==
    LET f == FcArg.df IN
    {i \in UsableRows :
        bucket(Val(FcReq.fc_freq),
               to_datetime(f.data[i][col_pos(f, Val(FcReq.date_col))]).n) = l}

\* C21: the series run_forecast fits has no null value; in date mode its
\* keys are strictly increasing and are exactly the buckets that hold a row
\* with a date that parses and a value, each with the average of the values
\* of those rows; in index mode it is the non-null values in row order.
C21_FittedSeriesCleanAndOrdered ==
    (FcCalled /\ FcRet.outcome = "forecast") =>
        LET s == FcRet.fit.series
            vals == column(FcArg.df, col_pos(FcArg.df, Val(FcReq.fc_col)))
        IN /\ \A i \in 1..Len(s) : s[i].value.den > 0
           /\ DateMode =>
                  /\ \A i, j \in 1..Len(s) : i < j => s[i].key < s[j].key
                  /\ {s[i].key : i \in 1..Len(s)} = UsableBuckets
                  /\ \A i \in 1..Len(s) :
                         s[i].value.num * Cardinality(RowsInBucket(s[i].key)) =
                             s[i].value.den * SeqSum(nums(Pick(vals, RowsInBucket(s[i].key))))
           /\ ~DateMode => [i \in 1..Len(s) |-> s[i].value] =
                               [i \in 1..Len(FcValues) |-> Rat(FcValues[i], 1)]

\* C21 witness: a forecast in date mode over text dates that do not ascend,
\* with a bucket of two rows of different values
C21_Witness ==
    /\ FcCalled /\ FcRet.outcome = "forecast"
    /\ FcReq.date_col = Some(Str("When"))
    /\ \E i \in 1..Len(FcRet.fit.series) :
           /\ Cardinality(RowsInBucket(FcRet.fit.series[i].key)) = 2
           /\ FcRet.fit.series[i].value = Rat(125, 1)

-----------------------------------------------------------------------------
(* Claims about the column configuration (SpecConfig) *)

CfgTable == Val(arg).df
CfgCalled == ~IsNone(ret)
InSeq(x, seq) == \E i \in 1..Len(seq) : seq[i] = x

-----------------------------------------------------------------------------
(* Claims about generate_pivot and its aggregation selector (SpecPivot) *)

\* C23: generate_pivot called with an aggregation selector outside sum,
\* mean, median, count, min, max, std returns no pivot result.
C23_UnknownAggregationRejected ==
    (~IsNone(ret) /\ PivotArg.req.agg_type \notin agg_map) => IsNone(Val(ret).pvt)

-----------------------------------------------------------------------------
(* Claims about the session across reruns of main (Spec) *)

\* C26: the stored table and the stored file name are set or cleared
\* together: session df is None exactly when session file_name is None.
C26_TableAndNameTogether == IsNone(df) <=> IsNone(file_name)

\* C26 witness: a rerun whose load cleared a session that held a table
C26_Witness ==
    /\ last.outcome = "cleared" /\ last.had
    /\ IsNone(df) /\ IsNone(file_name)

-----------------------------------------------------------------------------
(* Claims about the session with the configuration and the pivot tab (SpecApp) *)

\* C24: a pivot result held in session state next to a table (and so
\* displayed and exported under the current file name) was computed from
\* that table: it is the result of a request of the pivot tab on it.
C24_PivotOfCurrentTable ==
    (~IsNone(pivot_df) /\ ~IsNone(df)) =>
        \E req \in TabRequests(Val(df)) :
            /\ ~rejects(req.value_cols, req.agg_type)
            /\ pivot_df = generate_pivot(Val(df), req.row_fields, req.col_fields,
                                         Some(req.value_cols), req.agg_type)

\* C25: when the date selector is rendered, the date column in session state
\* is None or one of the table's date-like columns, and line 916 does not
\* raise.
C25_DateColumnAmongOptions ==
    /\ last.outcome # "index_error"
    /\ (last.outcome = "done" /\ ~IsNone(session_date_col)) =>
           \E smp \in RenderSamples(Val(df)) :
               Val(session_date_col) \in Range(date_cols(Val(df), smp))

-----------------------------------------------------------------------------
(* Claims about run_forecast and the session (SpecForecast) *)

====
